---- MODULE Spec2Model ----
(***************************************************************************)
(* Model of the bulk e-mail validation server (src/index.js): the          *)
(* duplicate filter, the address classifier, the MX resolver with its      *)
(* cache and retries, and the two request handlers (/validate-batch and    *)
(* /validate-stream) that fan the classifications out window by window.    *)
(*                                                                         *)
(* A JavaScript string is a sequence of one-character strings.  One action *)
(* of the model is one callback of the Node event loop together with the   *)
(* promise continuations (microtasks) it triggers: between two awaits of   *)
(* real I/O (a DNS answer, a timer) nothing else can run.                  *)
(***************************************************************************)
EXTENDS Integers, Sequences, FiniteSets, TLC

(***************************************************************************)
(* Bounds of the model.  The request-size limits and the window sizes of   *)
(* the program (10000 / 1000 addresses, 100 / 50 per window) are scaled    *)
(* down to sizes a model checker can enumerate; every formula below is     *)
(* stated with these names, never with the scaled numbers.                 *)
(***************************************************************************)
\* scaled stand-in for the 10000 of src/index.js:242
BATCH_MAX_EMAILS == 3
\* scaled stand-in for the 1000 of src/index.js:307
STREAM_MAX_EMAILS == 3
\* scaled stand-in for CONCURRENCY_LIMIT = 100 of src/index.js:256
BATCH_CONCURRENCY_LIMIT == 2
\* scaled stand-in for CONCURRENCY_LIMIT = 50 of src/index.js:325
STREAM_CONCURRENCY_LIMIT == 2
\* longest list handed to filterDuplicateEmails in the specification SpecDedup
MaxDedupLen == 3

(***************************************************************************)
(* JavaScript values that are not strings.                                 *)
(***************************************************************************)
\* a JSON array element that is not a string (a number, null, an object)
NotAString == <<"(non-string JSON value)">>
\* the boolean false that validator.normalizeEmail returns
JsFalse == <<"(boolean false)">>
\* the value of an absent property or array element
Undefined == <<"(undefined)">>
\* the score of a verdict object that has no score property
NoScore == -1

(***************************************************************************)
(* Strings.                                                                *)
(***************************************************************************)
UpperChars == <<"A", "B", "C", "D", "E", "F", "G", "H", "I", "J", "K", "L", "M",
                "N", "O", "P", "Q", "R", "S", "T", "U", "V", "W", "X", "Y", "Z">>
LowerChars == <<"a", "b", "c", "d", "e", "f", "g", "h", "i", "j", "k", "l", "m",
                "n", "o", "p", "q", "r", "s", "t", "u", "v", "w", "x", "y", "z">>

LowerChar(c) ==
    IF \E i \in 1..Len(UpperChars) : UpperChars[i] = c
    THEN LowerChars[CHOOSE i \in 1..Len(UpperChars) : UpperChars[i] = c]
    ELSE c

\* String.prototype.toLowerCase
toLowerCase(s) == [i \in 1..Len(s) |-> LowerChar(s[i])]

\* the class \s of a JavaScript regular expression
IsSpace(c) == c \in {" ", "\t", "\n", "\r"}

\* validator.trim(str): strips the white space at both ends
trim(s) ==
    LET keep == {i \in 1..Len(s) : ~IsSpace(s[i])}
    IN  IF keep = {} THEN <<>>
        ELSE SubSeq(s, CHOOSE i \in keep : \A j \in keep : i <= j,
                       CHOOSE i \in keep : \A j \in keep : i >= j)

\* validator.escape replaces each of & ' < > / by an HTML entity (and likewise
\* the double quote, the backslash and the backquote, which no address of the
\* model contains)
EscapeChar(c) ==
    CASE c = "&" -> <<"&", "a", "m", "p", ";">>
      [] c = "'" -> <<"&", "#", "x", "2", "7", ";">>
      [] c = "<" -> <<"&", "l", "t", ";">>
      [] c = ">" -> <<"&", "g", "t", ";">>
      [] c = "/" -> <<"&", "#", "x", "2", "F", ";">>
      [] OTHER   -> <<c>>

RECURSIVE escape(_)
escape(s) == IF s = <<>> THEN <<>> ELSE EscapeChar(Head(s)) \o escape(Tail(s))

\* String.prototype.split(sep) for a one-character separator
RECURSIVE split(_, _)
split(s, sep) ==
    IF \A i \in 1..Len(s) : s[i] # sep THEN <<s>>
    ELSE LET p == CHOOSE i \in 1..Len(s) : s[i] = sep /\ \A j \in 1..(i - 1) : s[j] # sep
         IN  <<SubSeq(s, 1, p - 1)>> \o split(SubSeq(s, p + 1, Len(s)), sep)

\* Array.prototype.join(sep)
RECURSIVE join(_, _)
join(parts, sep) ==
    IF Len(parts) = 0 THEN <<>>
    ELSE IF Len(parts) = 1 THEN parts[1]
    ELSE parts[1] \o <<sep>> \o join(Tail(parts), sep)

\* str.replace(/\.+/g, dotsReplacer): removes every dot
RECURSIVE removeDots(_)
removeDots(s) ==
    IF s = <<>> THEN <<>>
    ELSE (IF Head(s) = "." THEN <<>> ELSE <<Head(s)>>) \o removeDots(Tail(s))

\* Array.prototype.slice(from, to) with 0-based bounds, to exclusive
slice(arr, from, to) ==
    SubSeq(arr, from + 1, IF to < Len(arr) THEN to ELSE Len(arr))

(***************************************************************************)
(* The domain lists of the program.                                        *)
(***************************************************************************)
D_tempmail_com == <<"t", "e", "m", "p", "m", "a", "i", "l", ".", "c", "o", "m">>
D_mailinator_com == <<"m", "a", "i", "l", "i", "n", "a", "t", "o", "r", ".", "c", "o", "m">>
D_tenminutemail_com == <<"1", "0", "m", "i", "n", "u", "t", "e", "m", "a", "i", "l", ".", "c", "o", "m">>
D_guerrillamail_com == <<"g", "u", "e", "r", "r", "i", "l", "l", "a", "m", "a", "i", "l", ".", "c", "o", "m">>
D_hotmail_com == <<"h", "o", "t", "m", "a", "i", "l", ".", "c", "o", "m">>
D_aol_com == <<"a", "o", "l", ".", "c", "o", "m">>
D_comcast_net == <<"c", "o", "m", "c", "a", "s", "t", ".", "n", "e", "t">>
D_jcom_home_ne_jp == <<"j", "c", "o", "m", ".", "h", "o", "m", "e", ".", "n", "e", ".", "j", "p">>
D_yahoo_com == <<"y", "a", "h", "o", "o", ".", "c", "o", "m">>
D_gmail_com == <<"g", "m", "a", "i", "l", ".", "c", "o", "m">>
D_jcom_zaq_ne_jp == <<"j", "c", "o", "m", ".", "z", "a", "q", ".", "n", "e", ".", "j", "p">>
D_mail_ru == <<"m", "a", "i", "l", ".", "r", "u">>
D_outlook_com == <<"o", "u", "t", "l", "o", "o", "k", ".", "c", "o", "m">>
D_googlemail_com == <<"g", "o", "o", "g", "l", "e", "m", "a", "i", "l", ".", "c", "o", "m">>

DISPOSABLE_DOMAINS == {D_tempmail_com, D_mailinator_com, D_tenminutemail_com, D_guerrillamail_com}

PUBLIC_DOMAINS == <<D_hotmail_com, D_aol_com, D_comcast_net, D_jcom_home_ne_jp, D_yahoo_com, D_gmail_com, D_jcom_zaq_ne_jp, D_mail_ru, D_outlook_com>>

(***************************************************************************)
(* validator.normalizeEmail with its default options.  It does not check   *)
(* the address: it lower-cases the domain (the text after the last @), and *)
(* the local part; for gmail.com / googlemail.com it also drops the dots   *)
(* and the +tag of the local part, for hotmail.com / outlook.com the +tag, *)
(* for yahoo.com the -tag; for these providers an empty local part makes   *)
(* it return false.                                                        *)
(***************************************************************************)
dropLast(parts) == SubSeq(parts, 1, Len(parts) - 1)

\* the address rebuilt from the reduced local part; an empty one gives false
withLocal(local, domain) ==
    IF Len(local) = 0 THEN JsFalse ELSE toLowerCase(local) \o <<"@">> \o domain

\* yahoo.com: the text after the last "-" of the local part is dropped
dashLess(components) ==
    IF Len(components) > 1 THEN join(dropLast(components), "-") ELSE components[1]

\* the provider rules applied to the local part and the lower-cased domain
normalizeParts(user, domain) ==
    IF domain \in {D_gmail_com, D_googlemail_com}
    THEN withLocal(removeDots(split(user, "+")[1]), D_gmail_com)
    ELSE IF domain \in {D_hotmail_com, D_outlook_com}
    THEN withLocal(split(user, "+")[1], domain)
    ELSE IF domain = D_yahoo_com
    THEN withLocal(dashLess(split(user, "-")), domain)
    ELSE toLowerCase(user) \o <<"@">> \o domain

\* raw_parts = email.split('@'): the domain is its last part, the local part
\* the others joined again
normalizeRawParts(raw_parts) ==
    normalizeParts(join(dropLast(raw_parts), "@"), toLowerCase(raw_parts[Len(raw_parts)]))

normalizeEmail(email) == normalizeRawParts(split(email, "@"))

(***************************************************************************)
(* isEmailFormatValid: the regular expression /^[^\s@]+@[^\s@]+\.[^\s@]+$/ *)
(* and the two length bounds.                                              *)
(***************************************************************************)
\* /^[^\s@]+@[^\s@]+\.[^\s@]+$/.test(email): no white space, exactly one @ with
\* text before it, and after it a dot with text on both sides
reTestParts(email, parts) ==
    /\ \A i \in 1..Len(email) : ~IsSpace(email[i])
    /\ Len(parts) = 2
    /\ Len(parts[1]) >= 1
    /\ \E i \in 2..(Len(parts[2]) - 1) : parts[2][i] = "."

reTest(email) == reTestParts(email, split(email, "@"))

EMAIL_MAX_LENGTH == 254
DOMAIN_MAX_LENGTH == 253

\* email.split('@')[1]
secondPart(parts) == IF Len(parts) >= 2 THEN parts[2] ELSE Undefined

\* domain && domain.length > 253
domainTooLong(domain) ==
    domain # Undefined /\ Len(domain) # 0 /\ Len(domain) > DOMAIN_MAX_LENGTH

\* called with a string; the caller handles the value false (see validateEmail)
isEmailFormatValid(email) ==
    IF Len(email) > EMAIL_MAX_LENGTH THEN FALSE
    ELSE IF domainTooLong(secondPart(split(email, "@"))) THEN FALSE
    ELSE reTest(email)

(***************************************************************************)
(* filterDuplicateEmails: one pass over the list with the set of the       *)
(* lower-cased addresses seen so far.                                      *)
(***************************************************************************)
\* faulty variant of filterStep: the set seen holds the addresses in their own casing
filterStepCaseSensitive(acc, email) ==
    LET sanitized == trim(email)
    IN  IF sanitized \in acc.seen
        THEN [acc EXCEPT !.duplicates = Append(@, sanitized)]
        ELSE [acc EXCEPT !.seen = @ \cup {sanitized},
                         !.uniqueEmails = Append(@, sanitized)]

\* faulty variant of filterStep: the lists receive the lower-cased address
filterStepLowercased(acc, email) ==
    LET normalizedEmail == toLowerCase(trim(email))
    IN  IF normalizedEmail \in acc.seen
        THEN [acc EXCEPT !.duplicates = Append(@, normalizedEmail)]
        ELSE [acc EXCEPT !.seen = @ \cup {normalizedEmail},
                         !.uniqueEmails = Append(@, normalizedEmail)]

\* the body of the forEach callback: acc is the state of seen, uniqueEmails and
\* duplicates
filterStep(acc, email) ==
    LET sanitized       == trim(email)
        normalizedEmail == toLowerCase(sanitized)
    IN  IF normalizedEmail \in acc.seen
        THEN [acc EXCEPT !.duplicates = Append(@, sanitized)]
        ELSE [acc EXCEPT !.seen = @ \cup {normalizedEmail},
                         !.uniqueEmails = Append(@, sanitized)]

RECURSIVE filterLoop(_, _)
filterLoop(acc, emails) ==
    IF emails = <<>> THEN acc
    ELSE filterLoop(filterStep(acc, Head(emails)), Tail(emails))

\* the object returned once the loop has ended
filterResult(acc, emails) ==
    [uniqueEmails    |-> acc.uniqueEmails,
     duplicates      |-> acc.duplicates,
     totalOriginal   |-> Len(emails),
     totalUnique     |-> Len(acc.uniqueEmails),
     totalDuplicates |-> Len(acc.duplicates)]

filterDuplicateEmails(emails) ==
    filterResult(filterLoop([seen |-> {}, uniqueEmails |-> <<>>, duplicates |-> <<>>], emails),
                 emails)

(***************************************************************************)
(* State.                                                                  *)
(***************************************************************************)
VARIABLES
    req,      \* the requests: for each request id the state of its handler
    mxCache,  \* the NodeCache of MX outcomes: key -> [v: outcome, t: time of set]
    now,      \* the wall clock, in seconds
    dnsLog,   \* history: per domain, the issue times of the MX lookups that were
              \* answered and of the TXT lookups that were issued
    dd,       \* the call of filterDuplicateEmails under check in SpecDedup
    pm        \* the call of pMap (earlier stream variant) under check in SpecPMap

vars == <<req, mxCache, now, dnsLog, dd, pm>>

\* the request ids of the model
Requests == {1, 2}

\* stdTTL of the cache, in seconds
stdTTL == 3600
\* the default of the parameter retries of hasMXRecord
MX_RETRIES == 3
\* the clock advances in steps of TickStep seconds up to MaxTime
TickStep == 1800
MaxTime == 5400

Null == [null |-> TRUE]

\* m[k] when the map m has the key k
Has(m, k) == k \in DOMAIN m
Put(m, k, v) == [x \in (DOMAIN m) \cup {k} |-> IF x = k THEN v ELSE m[x]]
EmptyMap == [x \in {} |-> Null]

(***************************************************************************)
(* The MX cache (node-cache with stdTTL = 3600).  An entry set at time t   *)
(* carries the deadline t + stdTTL and is dropped by the first get that    *)
(* finds the deadline in the past.                                         *)
(***************************************************************************)
cacheKey(domain) == <<"m", "x", "_">> \o domain

Expired(entry, t) == entry.t + stdTTL < t

\* mxCache.get(key): hit is FALSE for the result undefined, else v is the outcome
cacheGet(cache, key, t) ==
    IF Has(cache, key) /\ ~Expired(cache[key], t)
    THEN [hit |-> TRUE, v |-> cache[key].v]
    ELSE [hit |-> FALSE, v |-> FALSE]

\* mxCache.set(key, v)
cacheSet(cache, key, v, t) == Put(cache, key, [v |-> v, t |-> t])

(***************************************************************************)
(* Verdicts.                                                               *)
(***************************************************************************)
Verdict(email, result, type, score, reason) ==
    [email |-> email, result |-> result, type |-> type, score |-> score, reason |-> reason]

NoVerdict == Verdict(Undefined, "none", "none", NoScore, "")

\* the object built for a rejected classification (src/index.js:267-271): it
\* has neither type nor score
ErrorVerdict(email, message) == Verdict(email, "error", "none", NoScore, message)

(***************************************************************************)
(* validateEmail, as the task of one address of a window.  pc is the await *)
(* the call is suspended at: "mx" (dns.resolveMx in flight), "backoff"     *)
(* (the retry timer), "txt" (dns.resolveTxt in flight), or it has settled: *)
(* "fulfilled" with a verdict, "rejected" with a message.                  *)
(***************************************************************************)
Task(email) ==
    [email |-> email, sanitized |-> Undefined, domain |-> Undefined, type |-> "public",
     pc |-> "start", attempt |-> 0, t0 |-> 0, verdict |-> NoVerdict, reason |-> "",
     mx |-> 0, txt |-> 0, cacheReads |-> 0, cacheWrites |-> 0,
     \* history of the call of hasMXRecord: whether the cache answered it, the
     \* delays (ms) of the timers it awaited, the values it wrote to the cache
     hit |-> FALSE, waits |-> <<>>, wrote |-> <<>>,
     \* history: the age in seconds of the cache entry that answered the call
     hitAge |-> 0,
     \* history: how dns.resolveTxt answered the call of checkSPF
     txtAnswer |-> "none",
     \* history: the position of the call among the calls of its window in the
     \* order of settling after an await (0: it settled before its first await)
     rank |-> 0,
     \* the lookup in flight is one the resolver never answers
     hung |-> FALSE]

Fulfil(task, result, score, reason) ==
    [task EXCEPT !.pc = "fulfilled",
                 !.verdict = Verdict(task.sanitized, result, task.type, score, reason)]

\* checkSPF(domain): issues dns.resolveTxt
checkSPFStart(task, t) ==
    [task EXCEPT !.pc = "txt", !.txt = @ + 1, !.t0 = t]

\* faulty variant of afterMX: checkSPF is called whatever hasMXRecord returned
afterMXAlwaysSPF(task, mxValid, t) == checkSPFStart(task, t)

\* validateEmail after hasMXRecord has returned mxValid
afterMX(task, mxValid, t) ==
    IF ~mxValid THEN Fulfil(task, "undeliverable", 10, "Domain has no MX records")
    ELSE checkSPFStart(task, t)

\* faulty variant of hasMXRecordStart: a cached false counts as a miss
hasMXRecordStartRetriesNegative(task, cache, t) ==
    LET cached == cacheGet(cache, cacheKey(task.domain), t)
        read   == [task EXCEPT !.cacheReads = @ + 1]
    IN  IF cached.hit /\ cached.v
        THEN afterMX([read EXCEPT !.hit = TRUE,
                                  !.hitAge = t - cache[cacheKey(task.domain)].t],
                     cached.v, t)
        ELSE [read EXCEPT !.pc = "mx", !.attempt = 1, !.mx = @ + 1, !.t0 = t]

\* hasMXRecord up to its first await: the cache read, then the first lookup
hasMXRecordStart(task, cache, t) ==
    LET cached == cacheGet(cache, cacheKey(task.domain), t)
        read   == [task EXCEPT !.cacheReads = @ + 1]
    IN  IF cached.hit
        THEN afterMX([read EXCEPT !.hit = TRUE,
                                  !.hitAge = t - cache[cacheKey(task.domain)].t],
                     cached.v, t)
        ELSE [read EXCEPT !.pc = "mx", !.attempt = 1, !.mx = @ + 1, !.t0 = t]

\* sanitized.split('@')[1]?.toLowerCase()
domainOf(sanitized) ==
    IF secondPart(split(sanitized, "@")) = Undefined THEN Undefined
    ELSE toLowerCase(secondPart(split(sanitized, "@")))

\* PUBLIC_DOMAINS.includes(domain) decides the type
typeOf(domain) ==
    IF \E j \in 1..Len(PUBLIC_DOMAINS) : PUBLIC_DOMAINS[j] = domain THEN "public" ELSE "pro"

\* faulty variant of classifyStart: the test of DISPOSABLE_DOMAINS is missing
classifyStartNoDisposable(task, formatValid, cache, t) ==
    IF ~formatValid \/ task.domain = Undefined \/ Len(task.domain) = 0
    THEN Fulfil(task, "invalid_format", 0, "Invalid email format or missing domain")
    ELSE hasMXRecordStart([task EXCEPT !.type = typeOf(task.domain)], cache, t)

\* validateEmail from the test of formatValid and domain to its first await;
\* the task carries sanitized and domain
classifyStart(task, formatValid, cache, t) ==
    IF ~formatValid \/ task.domain = Undefined \/ Len(task.domain) = 0
    THEN Fulfil(task, "invalid_format", 0, "Invalid email format or missing domain")
    ELSE IF task.domain \in DISPOSABLE_DOMAINS
    THEN Fulfil(task, "disposable", 0, "Disposable email domain")
    ELSE hasMXRecordStart([task EXCEPT !.type = typeOf(task.domain)], cache, t)

\* validateEmail once normalizeEmail has returned sanitized
validateSanitized(email, sanitized, cache, t) ==
    IF sanitized = JsFalse
    THEN \* isEmailFormatValid(false): false.split is not a function
         [Task(email) EXCEPT !.sanitized = JsFalse, !.pc = "rejected",
                             !.reason = "email.split is not a function"]
    ELSE classifyStart([Task(email) EXCEPT !.sanitized = sanitized,
                                           !.domain = domainOf(sanitized)],
                       isEmailFormatValid(sanitized), cache, t)

\* validateEmail(email) up to its first await of the DNS collaborator
validateEmailStart(email, cache, t) ==
    validateSanitized(email, normalizeEmail(email), cache, t)

Settled(task) == task.pc \in {"fulfilled", "rejected"}

\* the element Promise.allSettled gives for a task, mapped as in
\* src/index.js:263-273
processedResult(task) ==
    IF task.pc = "fulfilled" THEN task.verdict
    ELSE ErrorVerdict(task.email, task.reason)

\* faulty variant of processedResults: the rejected classifications are dropped
RECURSIVE processedResultsFulfilledOnly(_)
processedResultsFulfilledOnly(tasks) ==
    IF tasks = <<>> THEN <<>>
    ELSE (IF Head(tasks).pc = "fulfilled" THEN <<Head(tasks).verdict>> ELSE <<>>)
         \o processedResultsFulfilledOnly(Tail(tasks))

\* faulty variant of processedResults: the verdicts in the order of settling
processedResultsAsSettled(tasks) ==
    LET before(j, k) == \/ tasks[j].rank < tasks[k].rank
                        \/ tasks[j].rank = tasks[k].rank /\ j < k
        pos(k) == 1 + Cardinality({j \in 1..Len(tasks) : before(j, k)})
    IN  [i \in 1..Len(tasks) |->
            processedResult(tasks[CHOOSE k \in 1..Len(tasks) : pos(k) = i])]

processedResults(tasks) == [k \in 1..Len(tasks) |-> processedResult(tasks[k])]

(***************************************************************************)
(* The request handlers.                                                   *)
(***************************************************************************)
\* st: "idle" (not yet received), "rejected" (400 sent), "crashed" (the handler
\* threw outside its try block: its promise rejected and it sent nothing more),
\* "running" (awaiting Promise.allSettled of the window at i), "paused" (stream:
\* awaiting the DELAY_MS timer), "done" (batch: response sent; stream: done
\* marker written and response ended), "failed" (the catch block has run).
IdleReq ==
    [st |-> "idle", mode |-> "none", emails |-> <<>>, filterDuplicates |-> FALSE,
     emailsToProcess |-> <<>>, duplicateInfo |-> Null, i |-> 0, tasks |-> <<>>,
     results |-> <<>>, response |-> Null, headersSent |-> FALSE, events |-> <<>>,
     ended |-> FALSE, connected |-> TRUE,
     \* history: the settled tasks of the completed windows, and for each window
     \* started its offset and whether the client was still connected
     archive |-> <<>>, winStarts |-> <<>>,
     \* history: for each await of the DELAY_MS timer the offset of the window it
     \* followed and the number of events written before it
     pauses |-> <<>>,
     \* history: for each call of res.end() of a stream the number of events
     \* written before it
     ends |-> <<>>]

CONCURRENCY_LIMIT(mode) ==
    IF mode = "batch" THEN BATCH_CONCURRENCY_LIMIT ELSE STREAM_CONCURRENCY_LIMIT

MaxEmails(mode) == IF mode = "batch" THEN BATCH_MAX_EMAILS ELSE STREAM_MAX_EMAILS

\* the two guards at the head of each handler (src/index.js:236-246, 301-311)
isEmptyList(emails) == Len(emails) = 0

\* faulty variant of isTooLong: a list of exactly the maximum is refused
isTooLongOffByOne(mode, emails) == Len(emails) >= MaxEmails(mode)

isTooLong(mode, emails) == Len(emails) > MaxEmails(mode)

\* history of the TXT lookups issued at time t by the tasks just started
RECURSIVE logTxtIssued(_, _, _)
logTxtIssued(log, tasks, t) ==
    IF tasks = <<>> THEN log
    ELSE LET task == Head(tasks)
             old  == IF Has(log, task.domain) THEN log[task.domain]
                     ELSE [mxOk |-> <<>>, txt |-> <<>>]
         IN  logTxtIssued(IF task.pc = "txt"
                          THEN Put(log, task.domain, [old EXCEPT !.txt = Append(@, t)])
                          ELSE log,
                          Tail(tasks), t)

logMxAnswered(log, domain, t0) ==
    LET old == IF Has(log, domain) THEN log[domain] ELSE [mxOk |-> <<>>, txt |-> <<>>]
    IN  Put(log, domain, [old EXCEPT !.mxOk = Append(@, t0)])

\* faulty variant of chunkOf: the window takes the whole rest of the list
chunkOfRest(q) == slice(q.emailsToProcess, q.i, Len(q.emailsToProcess))

\* the chunk of the window at offset q.i
chunkOf(q) == slice(q.emailsToProcess, q.i, q.i + CONCURRENCY_LIMIT(q.mode))

\* chunk.map(email => validateEmail(email)): every call runs up to its first
\* await before the handler awaits Promise.allSettled
startTasks(chunk, cache, t) ==
    [k \in 1..Len(chunk) |-> validateEmailStart(chunk[k], cache, t)]

\* the handler awaits Promise.allSettled of the tasks just started
awaitWindow(q, tasks, log, t) ==
    [q   |-> [q EXCEPT !.st = "running", !.tasks = tasks,
                       !.winStarts = Append(@, [i |-> q.i, connected |-> q.connected,
                                                pauses |-> Len(q.pauses)])],
     log |-> logTxtIssued(log, tasks, t)]

startWindow(q, cache, log, t) == awaitWindow(q, startTasks(chunkOf(q), cache, t), log, t)

\* faulty variant of WindowSettled: the await ends with the first settled call
WindowAnySettled(q) == \E k \in 1..Len(q.tasks) : Settled(q.tasks[k])

WindowSettled(q) == \A k \in 1..Len(q.tasks) : Settled(q.tasks[k])

CountResult(results, r) == Cardinality({k \in 1..Len(results) : results[k].result = r})

\* the response object of src/index.js:277-289
batchResponse(results, filterDuplicates, duplicateInfo) ==
    [status  |-> 200,
     total   |-> Len(results),
     results |-> results,
     summary |-> [deliverable    |-> CountResult(results, "deliverable"),
                  undeliverable  |-> CountResult(results, "undeliverable"),
                  invalid_format |-> CountResult(results, "invalid_format"),
                  error          |-> CountResult(results, "error")],
     duplicateFilter |-> IF filterDuplicates /\ duplicateInfo # Null
                         THEN duplicateInfo ELSE Null]

\* res.write of one server-sent event; history: open records whether the client
\* was still connected when it was written, win the offset of the window the
\* loop was at, started the number of windows started before it
Event(kind, data, q) ==
    [kind |-> kind, data |-> data, open |-> q.connected, win |-> q.i,
     started |-> Len(q.winStarts)]

\* faulty variant of writeVerdicts: the verdicts of a window are written last
\* first
writeVerdictsReversed(q, verdicts) ==
    [q EXCEPT !.events = @ \o [k \in 1..Len(verdicts) |->
                                  Event("verdict", verdicts[Len(verdicts) + 1 - k], q)]]

\* for (const result of processedResults) res.write(...)

writeVerdicts(q, verdicts) ==
    [q EXCEPT !.events = @ \o [k \in 1..Len(verdicts) |-> Event("verdict", verdicts[k], q)]]

\* res.end() of a stream
end(q) == [q EXCEPT !.ended = TRUE, !.ends = Append(@, Len(q.events))]

\* faulty variant of finishStream: the response is ended without the marker
finishStreamNoMarker(q) == end([q EXCEPT !.st = "done"])

\* res.write('event: done ...') and res.end() after the last window
finishStream(q) ==
    end([q EXCEPT !.st = "done",
                  !.events = Append(@, Event("done", [text |-> "selesai"], q))])

\* history: what a settled task did
archived(tasks) ==
    [k \in 1..Len(tasks) |->
        [email |-> tasks[k].email, result |-> processedResult(tasks[k]).result,
         score |-> processedResult(tasks[k]).score,
         type |-> processedResult(tasks[k]).type,
         settled |-> Settled(tasks[k]),
         usedDns |-> tasks[k].mx + tasks[k].txt > 0,
         usedCache |-> tasks[k].cacheReads + tasks[k].cacheWrites > 0,
         mx |-> tasks[k].mx, hit |-> tasks[k].hit, hitAge |-> tasks[k].hitAge,
         rank |-> tasks[k].rank,
         waits |-> tasks[k].waits, wrote |-> tasks[k].wrote, txt |-> tasks[k].txt]]

\* faulty variant of catchBlock: the stream writes its marker and ends before
\* the catch block runs
catchBlockAfterMarker(q) ==
    IF q.mode = "batch"
    THEN [q EXCEPT !.st = "failed", !.ended = TRUE,
                   !.response = [status |-> 500, error |-> "Internal server error"]]
    ELSE end([finishStream(q) EXCEPT
                  !.st = "failed",
                  !.events = Append(@, Event("error", [error |-> "Internal server error"], q))])

\* the catch blocks (src/index.js:291-294 and 357-361)
catchBlock(q) ==
    IF q.mode = "batch"
    THEN [q EXCEPT !.st = "failed", !.ended = TRUE,
                   !.response = [status |-> 500, error |-> "Internal server error"]]
    ELSE end([q EXCEPT !.st = "failed",
                       !.events = Append(@, Event("error", [error |-> "Internal server error"], q))])

\* the settled window leaves the tasks in flight (history: it is archived)
closeWindow(q) == [q EXCEPT !.archive = @ \o archived(q.tasks), !.tasks = <<>>]

\* the batch handler after its last window: res.json(response)
respondBatch(q) ==
    [q EXCEPT !.st = "done", !.ended = TRUE,
              !.response = batchResponse(q.results, q.filterDuplicates, q.duplicateInfo)]

\* the handler resumes after Promise.allSettled of a settled window and runs
\* until its next await of a timer or of a window with a lookup in flight; fault
\* says that the first statement it runs inside the try block throws
RECURSIVE resume(_, _, _, _, _)

\* the await of the window w = [q, log] just started
resumeWindow(w, cache, t, fault) == resume(w.q, cache, w.log, t, fault)

\* the batch loop after results.push(...processedResults); more says that a
\* window is left
batchLoop(pushed, more, cache, log, t) ==
    IF more
    THEN resumeWindow(startWindow([pushed EXCEPT !.i = @ + CONCURRENCY_LIMIT("batch")],
                                  cache, log, t),
                      cache, t, FALSE)
    ELSE [q |-> respondBatch(pushed), log |-> log]

\* the handler awaits the DELAY_MS timer
pause(q) ==
    [q EXCEPT !.st = "paused",
              !.pauses = Append(@, [i |-> q.i, events |-> Len(q.events)])]

\* faulty variant of streamLoop: the marker is written after every window
streamLoopMarksEachWindow(written, more, log) ==
    IF more THEN [q |-> [pause(finishStream(written)) EXCEPT !.ended = FALSE], log |-> log]
    ELSE [q |-> finishStream(written), log |-> log]

\* faulty variant of streamLoop: the timer is awaited after the last window too
streamLoopPausesAlways(written, more, log) == [q |-> pause(written), log |-> log]

\* the stream loop after processChunk has written the verdicts of the window
streamLoop(written, more, log) ==
    IF more THEN [q |-> pause(written), log |-> log]
    ELSE [q |-> finishStream(written), log |-> log]

\* the code after the await of a settled window; closed is the request without
\* its tasks, verdicts their mapped results
afterWindow(closed, verdicts, more, cache, log, t, fault) ==
    IF fault THEN [q |-> catchBlock(closed), log |-> log]
    ELSE IF closed.mode = "batch"
    THEN batchLoop([closed EXCEPT !.results = @ \o verdicts], more, cache, log, t)
    ELSE streamLoop(writeVerdicts(closed, verdicts), more, log)

resume(q, cache, log, t, fault) ==
    IF q.st # "running" \/ ~WindowSettled(q) THEN [q |-> q, log |-> log]
    ELSE afterWindow(closeWindow(q), processedResults(q.tasks),
                     q.i + CONCURRENCY_LIMIT(q.mode) < Len(q.emailsToProcess),
                     cache, log, t, fault)

\* emails.map(e => validator.escape(e)): assertString throws on a non-string
escapeThrows(emails) == \E k \in 1..Len(emails) : emails[k] = NotAString

escapeAll(emails) == [k \in 1..Len(emails) |-> escape(emails[k])]

\* 400 with an error message
reject(q, message) ==
    [q EXCEPT !.st = "rejected", !.ended = TRUE,
              !.response = [status |-> 400, error |-> message]]

\* faulty variant of withList: the stream does not announce the duplicates
withListSilent(q, info, escaped) ==
    [q EXCEPT !.duplicateInfo = info,
              !.emailsToProcess = IF q.filterDuplicates THEN info.uniqueEmails ELSE escaped]

\* the list to classify is fixed; the stream announces the duplicates first
withList(q, info, escaped) ==
    [q EXCEPT !.duplicateInfo = info,
              !.emailsToProcess = IF q.filterDuplicates THEN info.uniqueEmails ELSE escaped,
              !.events = IF q.filterDuplicates /\ q.mode = "stream"
                         THEN Append(@, Event("duplicate_info", info, q)) ELSE @]

\* the handler from the duplicate filter to its first await
afterEscape(q, escaped, cache, log, t, fault) ==
    resumeWindow(startWindow(withList(q, IF q.filterDuplicates
                                         THEN filterDuplicateEmails(escaped) ELSE Null,
                                      escaped),
                             cache, log, t),
                 cache, t, fault)

\* the handler once the two guards have let the request q pass
accepted(q, cache, log, t, fault) ==
    IF escapeThrows(q.emails) THEN [q |-> [q EXCEPT !.st = "crashed"], log |-> log]
    ELSE afterEscape(q, escapeAll(q.emails), cache, log, t, fault)

\* faulty variant of guards: with filterDuplicates the size bound is applied to
\* the unique addresses
guardsCountUnique(q, cache, log, t, fault) ==
    IF isEmptyList(q.emails) THEN [q |-> reject(q, "emails must be an array"), log |-> log]
    ELSE IF isTooLong(q.mode, IF q.filterDuplicates
                              THEN filterDuplicateEmails(q.emails).uniqueEmails
                              ELSE q.emails)
    THEN [q |-> reject(q, "Maximum emails per request"), log |-> log]
    ELSE accepted([q EXCEPT !.headersSent = (q.mode = "stream")], cache, log, t, fault)

\* the two guards
guards(q, cache, log, t, fault) ==
    IF isEmptyList(q.emails) THEN [q |-> reject(q, "emails must be an array"), log |-> log]
    ELSE IF isTooLong(q.mode, q.emails)
    THEN [q |-> reject(q, "Maximum emails per request"), log |-> log]
    ELSE accepted([q EXCEPT !.headersSent = (q.mode = "stream")], cache, log, t, fault)

\* the handler of POST /validate-batch or GET /validate-stream from its first
\* statement to its first await
handle(mode, emails, filterDuplicates, cache, log, t, fault) ==
    guards([IdleReq EXCEPT !.mode = mode, !.emails = emails,
                           !.filterDuplicates = filterDuplicates],
           cache, log, t, fault)

(***************************************************************************)
(* pMap of the earlier stream variant (src/unnamed/part_001): a for...of   *)
(* loop that calls fn for each item, keeps the promises that have not      *)
(* settled in the array running, and awaits Promise.race(running) whenever *)
(* running holds concurrency promises; it returns Promise.all(results).    *)
(* Each promise p is the one .finally() returns: its callback takes p out  *)
(* of running before p settles, so every promise in running is unsettled.  *)
(***************************************************************************)
\* st: "idle" (not called), "race" (awaiting Promise.race(running)), "all"
\* (awaiting Promise.all(results)), "resolved" (with out), "rejected".  calls
\* holds the calls of fn in the order started, running and results their
\* positions in calls
IdlePMap ==
    [st |-> "idle", array |-> <<>>, concurrency |-> 1, next |-> 1, calls |-> <<>>,
     running |-> <<>>, results |-> <<>>, out |-> <<>>]

\* the value of a promise that has not fulfilled
NoValue == "(no value)"

\* fn(item) has been called: its promise is pending; history: index is the
\* position of item in array, rank the position of the call in the order of
\* settling
Call(index, item) ==
    [index |-> index, item |-> item, st |-> "pending", v |-> NoValue, rank |-> 0]

\* return Promise.all(results): the values in the order of results, or the
\* first rejection
awaitAll(p) ==
    IF \E k \in 1..Len(p.results) : p.calls[p.results[k]].st = "rejected"
    THEN [p EXCEPT !.st = "rejected"]
    ELSE IF \A k \in 1..Len(p.results) : p.calls[p.results[k]].st = "fulfilled"
    THEN [p EXCEPT !.st = "resolved",
                   !.out = [k \in 1..Len(p.results) |-> p.calls[p.results[k]].v]]
    ELSE [p EXCEPT !.st = "all"]

\* one turn of the loop up to its test of running.length: fn(item) is called,
\* its promise pushed to running and to results
pushCall(p) ==
    [p EXCEPT !.calls = Append(@, Call(p.next, p.array[p.next])),
              !.running = Append(@, Len(p.calls) + 1),
              !.results = Append(@, Len(p.calls) + 1),
              !.next = @ + 1]

\* faulty variant of pMapLoop: the loop never awaits Promise.race(running)
RECURSIVE pMapLoopNoWait(_)
pMapLoopNoWait(p) ==
    IF p.next > Len(p.array) THEN awaitAll(p) ELSE pMapLoopNoWait(pushCall(p))

\* the for...of loop from the item at p.next to its next await
RECURSIVE pMapLoop(_)
pMapLoop(p) ==
    IF p.next > Len(p.array) THEN awaitAll(p)
    ELSE IF Len(pushCall(p).running) >= p.concurrency
    THEN [pushCall(p) EXCEPT !.st = "race"]
    ELSE pMapLoop(pushCall(p))

\* pMap(array, fn, concurrency) up to its first await
pMap(array, concurrency) ==
    pMapLoop([IdlePMap EXCEPT !.array = array, !.concurrency = concurrency])

\* the promise of call k settles, and the callback of .finally() takes it out
\* of running
settleCall(p, k, ok, v) ==
    [p EXCEPT !.calls[k] = [@ EXCEPT !.st = IF ok THEN "fulfilled" ELSE "rejected",
                                     !.v = IF ok THEN v ELSE NoValue,
                                     !.rank = 1 + Cardinality({j \in 1..Len(p.calls) :
                                                                 p.calls[j].rank > 0})],
              !.running = SelectSeq(@, LAMBDA j : j # k)]

\* what pMap does when a promise it awaits has settled: the await of
\* Promise.race resumes the loop or throws, Promise.all resolves or rejects
afterSettle(p, ok) ==
    IF p.st = "race" THEN (IF ok THEN pMapLoop(p) ELSE [p EXCEPT !.st = "rejected"])
    ELSE IF p.st = "all" THEN awaitAll(p)
    ELSE p

(***************************************************************************)
(* Inputs.                                                                 *)
(***************************************************************************)
A_a_x      == <<"a", "@", "x", ".", "c", "o", "m">>
A_b_x      == <<"b", "@", "x", ".", "c", "o", "m">>
A_tempmail == <<"x", "@", "T", "e", "m", "p", "M", "a", "i", "l", ".", "c", "o", "m">>
A_bad      == <<"b", "a", "d", "@", "@", "n", "o", "d", "o", "m", "a", "i", "n">>
A_nolocal  == <<"@", "g", "m", "a", "i", "l", ".", "c", "o", "m">>

\* the addresses a query string can carry
StreamPool == {A_a_x, A_b_x, A_tempmail, A_bad, A_nolocal}
\* a JSON body can also carry elements that are not strings
BatchPool == StreamPool \cup {NotAString}

ListsOver(pool, n) == UNION {[1..m -> pool] : m \in 0..n}

\* the lists a request can carry: up to one address more than the handler accepts
Inputs(mode) ==
    IF mode = "batch" THEN ListsOver(BatchPool, BATCH_MAX_EMAILS + 1)
    ELSE ListsOver(StreamPool, STREAM_MAX_EMAILS + 1)

(***************************************************************************)
(* Actions.                                                                *)
(***************************************************************************)
Init ==
    /\ req = [r \in Requests |-> IdleReq]
    /\ mxCache = EmptyMap
    /\ now = 0
    /\ dnsLog = EmptyMap
    /\ dd = [emails |-> <<>>, called |-> FALSE, out |-> Null]
    /\ pm = IdlePMap

\* the handler of r has run to its next await and left w = [q, log]
Suspend(r, w) ==
    /\ req' = [req EXCEPT ![r] = w.q]
    /\ dnsLog' = w.log

\* a request arrives and its handler runs to its first await
Receive(r, mode, emails, filterDuplicates, fault) ==
    /\ Suspend(r, handle(mode, emails, filterDuplicates, mxCache, dnsLog, now, fault))
    /\ UNCHANGED <<mxCache, now, dd, pm>>

Arrive(r) ==
    /\ req[r].st = "idle"
    /\ \E mode \in {"batch", "stream"} : \E emails \in Inputs(mode) :
       \E fd \in BOOLEAN, fault \in BOOLEAN : Receive(r, mode, emails, fd, fault)

\* faulty variant of hasMXRecordResume: the last failure is thrown to the caller
hasMXRecordResumeThrows(task, outcome, t) ==
    IF outcome = "error"
    THEN IF task.attempt = MX_RETRIES
         THEN [task  |-> [task EXCEPT !.pc = "rejected", !.reason = "queryMx ESERVFAIL"],
               write |-> FALSE, v |-> FALSE]
         ELSE [task  |-> [task EXCEPT !.pc = "backoff",
                                      !.waits = Append(@, 1000 * task.attempt)],
               write |-> FALSE, v |-> FALSE]
    ELSE [task  |-> afterMX([task EXCEPT !.cacheWrites = @ + 1,
                                         !.wrote = Append(@, outcome = "records")],
                            outcome = "records", t),
          write |-> TRUE, v |-> (outcome = "records")]

\* faulty variant of hasMXRecordResume: the loop gives up one failure later
hasMXRecordResumeOneMore(task, outcome, t) ==
    IF outcome = "error"
    THEN IF task.attempt = MX_RETRIES + 1
         THEN [task  |-> afterMX([task EXCEPT !.cacheWrites = @ + 1,
                                              !.wrote = Append(@, FALSE)], FALSE, t),
               write |-> TRUE, v |-> FALSE]
         ELSE [task  |-> [task EXCEPT !.pc = "backoff",
                                      !.waits = Append(@, 1000 * task.attempt)],
               write |-> FALSE, v |-> FALSE]
    ELSE [task  |-> afterMX([task EXCEPT !.cacheWrites = @ + 1,
                                         !.wrote = Append(@, outcome = "records")],
                            outcome = "records", t),
          write |-> TRUE, v |-> (outcome = "records")]

\* hasMXRecord after the await of dns.resolveMx: the lookup of task k answers with
\* MX records, with an empty list, or fails
hasMXRecordResume(task, outcome, t) ==
    IF outcome = "error"
    THEN IF task.attempt = MX_RETRIES
         THEN [task  |-> afterMX([task EXCEPT !.cacheWrites = @ + 1,
                                              !.wrote = Append(@, FALSE)], FALSE, t),
               write |-> TRUE, v |-> FALSE]
         ELSE [task  |-> [task EXCEPT !.pc = "backoff",
                                      !.waits = Append(@, 1000 * task.attempt)],
               write |-> FALSE, v |-> FALSE]
    ELSE LET hasRecords == (outcome = "records")
         IN  [task  |-> afterMX([task EXCEPT !.cacheWrites = @ + 1,
                                             !.wrote = Append(@, hasRecords)], hasRecords, t),
              write |-> TRUE, v |-> hasRecords]

\* history: task has resumed among the tasks of its window; when it has settled
\* it takes the next rank
ranked(task, tasks) ==
    IF Settled(task)
    THEN [task EXCEPT !.rank = 1 + Cardinality({j \in 1..Len(tasks) : tasks[j].rank > 0})]
    ELSE task

\* the cache after hasMXRecord has resumed with res
cacheAfter(task, res, t) ==
    IF res.write THEN cacheSet(mxCache, cacheKey(task.domain), res.v, t) ELSE mxCache

\* history: the answered MX lookup and the TXT lookup the task then issues
logAfter(task, res, outcome, t) ==
    logTxtIssued(IF outcome = "error" THEN dnsLog
                 ELSE logMxAnswered(dnsLog, task.domain, task.t0),
                 <<res.task>>, t)

MxSettles(r, k, task, res, outcome, fault) ==
    /\ Suspend(r, resume([req[r] EXCEPT !.tasks[k] = ranked(res.task, req[r].tasks)],
                         cacheAfter(task, res, now),
                         logAfter(task, res, outcome, now), now, fault))
    /\ mxCache' = cacheAfter(task, res, now)

MxReply(r, k, outcome, fault) ==
    /\ req[r].tasks[k].pc = "mx"
    /\ ~req[r].tasks[k].hung
    /\ MxSettles(r, k, req[r].tasks[k], hasMXRecordResume(req[r].tasks[k], outcome, now),
                 outcome, fault)
    /\ UNCHANGED <<now, dd, pm>>

\* the timer of 1000 * attempt ms fires and the loop of hasMXRecord tries again
BackoffFires(r, k) ==
    /\ req[r].tasks[k].pc = "backoff"
    /\ req' = [req EXCEPT ![r].tasks[k] =
                  [@ EXCEPT !.pc = "mx", !.attempt = @ + 1, !.mx = @ + 1, !.t0 = now]]
    /\ UNCHANGED <<mxCache, now, dnsLog, dd, pm>>

\* faulty variant of checkSPFResume: a failure of dns.resolveTxt is thrown to the
\* caller
checkSPFResumeThrows(task, outcome) ==
    IF outcome = "error"
    THEN [task EXCEPT !.txtAnswer = outcome, !.pc = "rejected", !.reason = "queryTxt ETIMEOUT"]
    ELSE Fulfil([task EXCEPT !.txtAnswer = outcome],
                "deliverable", IF outcome = "spf" THEN 95 ELSE 80,
                IF outcome = "spf" THEN "Email is valid, domain has MX records and SPF"
                ELSE "Email is valid, domain has MX records")

\* faulty variant of checkSPFResume: the score does not depend on spfValid
checkSPFResumeFlatScore(task, outcome) ==
    Fulfil([task EXCEPT !.txtAnswer = outcome], "deliverable", 95,
           IF outcome = "spf" THEN "Email is valid, domain has MX records and SPF"
           ELSE "Email is valid, domain has MX records")

\* checkSPF after the await of dns.resolveTxt, and the rest of validateEmail
checkSPFResume(task, outcome) ==
    LET spfValid == (outcome = "spf")
    IN  Fulfil([task EXCEPT !.txtAnswer = outcome],
               "deliverable", IF spfValid THEN 95 ELSE 80,
               IF spfValid THEN "Email is valid, domain has MX records and SPF"
               ELSE "Email is valid, domain has MX records")

TxtReply(r, k, outcome, fault) ==
    /\ req[r].tasks[k].pc = "txt"
    /\ ~req[r].tasks[k].hung
    /\ Suspend(r, resume([req[r] EXCEPT !.tasks[k] =
                                      ranked(checkSPFResume(@, outcome), req[r].tasks)],
                         mxCache, dnsLog, now, fault))
    /\ UNCHANGED <<mxCache, now, dd, pm>>

\* stream: the DELAY_MS timer fires and the for loop starts the next window
DelayFires(r, fault) ==
    /\ req[r].st = "paused"
    /\ IF fault
       THEN /\ req' = [req EXCEPT ![r] = catchBlock(@)]
            /\ UNCHANGED dnsLog
       ELSE Suspend(r, resumeWindow(
                startWindow([req[r] EXCEPT !.i = @ + CONCURRENCY_LIMIT("stream")],
                            mxCache, dnsLog, now),
                mxCache, now, FALSE))
    /\ UNCHANGED <<mxCache, now, dd, pm>>

\* the client of a stream goes away; the handler registers no close listener
Disconnect(r) ==
    /\ req[r].mode = "stream"
    /\ req[r].st \in {"running", "paused"}
    /\ req[r].connected
    /\ req' = [req EXCEPT ![r].connected = FALSE]
    /\ UNCHANGED <<mxCache, now, dnsLog, dd, pm>>

\* the wall clock advances by TickStep seconds.  The step is far longer than a
\* lookup, a retry timer or the pause between two windows, so the clock
\* advances between the turns of the handlers, while no request is in flight
Tick ==
    /\ \A r \in Requests : req[r].st \notin {"running", "paused"}
    /\ now + TickStep <= MaxTime
    /\ now' = now + TickStep
    /\ UNCHANGED <<req, mxCache, dnsLog, dd, pm>>

MxOutcomes == {"records", "empty", "error"}
TxtOutcomes == {"spf", "nospf", "error"}

\* the indices of the tasks of the window in flight
Live(r) == 1..Len(req[r].tasks)

Next ==
    \/ Arrive(1)
    \/ \E r \in Requests : \E k \in Live(r) : \E o \in MxOutcomes, f \in BOOLEAN : MxReply(r, k, o, f)
    \/ \E r \in Requests : \E k \in Live(r) : BackoffFires(r, k)
    \/ \E r \in Requests : \E k \in Live(r) : \E o \in TxtOutcomes, f \in BOOLEAN : TxtReply(r, k, o, f)
    \/ \E r \in Requests : \E f \in BOOLEAN : DelayFires(r, f)
    \/ \E r \in Requests : Disconnect(r)

Spec == Init /\ [][Next]_vars

(***************************************************************************)
(* SpecTimed: requests of at most MaxTimedLen addresses of one domain       *)
(* arrive one after the other while the wall clock advances, so that a      *)
(* call of hasMXRecord can find the cache entry of an earlier call at any   *)
(* age.  The requests fit one window, hence no DELAY_MS timer is awaited.   *)
(***************************************************************************)
MaxTimedLen == 1

TimedPool == {A_a_x, A_b_x}

TimedInputs == ListsOver(TimedPool, MaxTimedLen) \ {<<>>}

\* request r arrives, after the requests with a smaller id
ArriveTimed(r) ==
    /\ req[r].st = "idle"
    /\ \A p \in Requests : p < r => req[p].st # "idle"
    /\ \E mode \in {"batch", "stream"} : \E emails \in TimedInputs :
           Receive(r, mode, emails, FALSE, FALSE)

NextTimed ==
    \/ \E r \in Requests : ArriveTimed(r)
    \/ \E r \in Requests : \E k \in Live(r) : \E o \in MxOutcomes, f \in BOOLEAN : MxReply(r, k, o, f)
    \/ \E r \in Requests : \E k \in Live(r) : BackoffFires(r, k)
    \/ \E r \in Requests : \E k \in Live(r) : \E o \in TxtOutcomes, f \in BOOLEAN : TxtReply(r, k, o, f)
    \/ Tick

SpecTimed == Init /\ [][NextTimed]_vars

(***************************************************************************)
(* SpecDedup: filterDuplicateEmails applied to every list of at most       *)
(* MaxDedupLen addresses that differ in case and in surrounding space.     *)
(***************************************************************************)
A_A_x       == <<"A", "@", "x", ".", "c", "o", "m">>
A_a_x_lead  == <<" ", "a", "@", "x", ".", "c", "o", "m">>
A_b_x_trail == <<"b", "@", "x", ".", "c", "o", "m", " ">>

DedupPool == {A_A_x, A_a_x, A_b_x, A_a_x_lead, A_b_x_trail}

InitDedup ==
    /\ req = [r \in Requests |-> IdleReq]
    /\ mxCache = EmptyMap
    /\ now = 0
    /\ dnsLog = EmptyMap
    /\ \E emails \in ListsOver(DedupPool, MaxDedupLen) :
          dd = [emails |-> emails, called |-> FALSE, out |-> Null]
    /\ pm = IdlePMap

DedupCall ==
    /\ ~dd.called
    /\ dd' = [dd EXCEPT !.called = TRUE, !.out = filterDuplicateEmails(dd.emails)]
    /\ UNCHANGED <<req, mxCache, now, dnsLog, pm>>

NextDedup == DedupCall

SpecDedup == InitDedup /\ [][NextDedup]_vars

(***************************************************************************)
(* Properties of the duplicate filter (SpecDedup).                         *)
(***************************************************************************)
Occurrences(list, x) == Cardinality({k \in 1..Len(list) : list[k] = x})

\* the n-th smallest element of a set of indices
NthOf(S, n) == CHOOSE i \in S : Cardinality({j \in S : j < i}) = n - 1

\* the elements of list at the indices S, in the order of the list
Selected(list, S) == [n \in 1..Cardinality(S) |-> list[NthOf(S, n)]]

\* the positions of a list whose address, trimmed and lower-cased, occurs at no
\* earlier position
FirstOccurrences(emails) ==
    {k \in 1..Len(emails) :
        \A j \in 1..(k - 1) : toLowerCase(trim(emails[j])) # toLowerCase(trim(emails[k]))}

\* C8: filterDuplicateEmails partitions the input: every input address (trimmed)
\* occurs in uniqueEmails and duplicates together exactly as often as in the
\* input, the three totals are the three lengths and add up, and no two entries
\* of uniqueEmails are equal after trimming and lower-casing.
C8_DedupPartitions ==
    dd.called =>
        LET out     == dd.out
            trimmed == [k \in 1..Len(dd.emails) |-> trim(dd.emails[k])]
        IN  /\ out.totalOriginal = Len(dd.emails)
            /\ out.totalUnique = Len(out.uniqueEmails)
            /\ out.totalDuplicates = Len(out.duplicates)
            /\ out.totalUnique + out.totalDuplicates = out.totalOriginal
            /\ \A k \in 1..Len(trimmed) :
                  Occurrences(trimmed, trimmed[k]) =
                      Occurrences(out.uniqueEmails, trimmed[k])
                      + Occurrences(out.duplicates, trimmed[k])
            /\ \A i, j \in 1..Len(out.uniqueEmails) :
                  i # j => toLowerCase(trim(out.uniqueEmails[i]))
                           # toLowerCase(trim(out.uniqueEmails[j]))

\* a call that found a duplicate differing in case or space from its first
\* occurrence, and kept two addresses
C8_Witness ==
    /\ dd.called
    /\ dd.out.totalUnique >= 2
    /\ \E k \in 1..Len(dd.out.duplicates) :
          \A j \in 1..Len(dd.out.uniqueEmails) : dd.out.duplicates[k] # dd.out.uniqueEmails[j]

\* C9: uniqueEmails is the list of the first occurrences (compared after trim
\* and lower-casing) in input order, each in its own trimmed casing, and
\* duplicates is the list of all later occurrences in input order; the list
\* A@x.com, a@x.com, b@x.com gives unique A@x.com, b@x.com and duplicate a@x.com.
C9_FirstOccurrenceWins ==
    dd.called =>
        LET trimmed == [k \in 1..Len(dd.emails) |-> trim(dd.emails[k])]
            first   == FirstOccurrences(dd.emails)
        IN  /\ dd.out.uniqueEmails = Selected(trimmed, first)
            /\ dd.out.duplicates = Selected(trimmed, (1..Len(dd.emails)) \ first)
            /\ dd.emails = <<A_A_x, A_a_x, A_b_x>> =>
                  /\ dd.out.uniqueEmails = <<A_A_x, A_b_x>>
                  /\ dd.out.duplicates = <<A_a_x>>

\* the call on the list A@x.com, a@x.com, b@x.com
C9_Witness ==
    /\ dd.called
    /\ dd.emails = <<A_A_x, A_a_x, A_b_x>>
    /\ dd.out.duplicates = <<A_a_x>>

(***************************************************************************)
(* Properties of the request handlers (Spec).                              *)
(***************************************************************************)
\* the number of input addresses that differ after trimming and lower-casing
UniqueCount(emails) ==
    Cardinality({toLowerCase(trim(emails[k])) : k \in 1..Len(emails)})

\* the classifications of the window in flight that have not settled
InFlight(r) == {k \in Live(r) : ~Settled(req[r].tasks[k])}

\* C1: the result array of a batch response has one verdict per unique input
\* address when filterDuplicates is on and one per input address when it is
\* off, and total is that number.
C1_BatchOneVerdictPerAddress ==
    \A r \in Requests :
        (req[r].mode = "batch" /\ req[r].st = "done") =>
            LET expected == IF req[r].filterDuplicates THEN UniqueCount(req[r].emails)
                            ELSE Len(req[r].emails)
            IN  /\ req[r].response.status = 200
                /\ Len(req[r].response.results) = expected
                /\ req[r].response.total = expected

\* a batch response after duplicates were removed, with a verdict of a failed
\* classification among several
C1_Witness ==
    \E r \in Requests :
        /\ req[r].mode = "batch" /\ req[r].st = "done" /\ req[r].filterDuplicates
        /\ Len(req[r].response.results) < Len(req[r].emails)
        /\ Len(req[r].response.results) >= 2
        /\ \E k \in 1..Len(req[r].response.results) : req[r].response.results[k].result = "error"

\* C2: a request inside the size bound, once its handler has stopped without an
\* internal fault, has completed normally with one verdict per processed
\* address, whatever the addresses are; in particular an element that is not a
\* string costs only its own verdict.
C2_BadAddressIsolated ==
    \A r \in Requests :
        req[r].st \notin {"idle", "rejected", "running", "paused", "failed"} =>
            /\ req[r].st = "done"
            /\ Len(req[r].archive) = Len(req[r].emailsToProcess)
            /\ \A k \in 1..Len(req[r].archive) :
                  req[r].archive[k].email = NotAString => req[r].archive[k].result = "error"

\* C3: the classifications of a request that have started and not settled are
\* never more than the window size of its mode.
C3_BoundedFanOut ==
    \A r \in Requests :
        /\ Cardinality(InFlight(r)) <= CONCURRENCY_LIMIT(req[r].mode)
        /\ Len(req[r].tasks) <= CONCURRENCY_LIMIT(req[r].mode)

\* a full window with every lookup in flight while addresses are still waiting
C3_Witness ==
    \E r \in Requests :
        /\ Cardinality(InFlight(r)) = CONCURRENCY_LIMIT(req[r].mode)
        /\ \A k \in InFlight(r) : req[r].tasks[k].pc \in {"mx", "txt"}
        /\ req[r].i + CONCURRENCY_LIMIT(req[r].mode) < Len(req[r].emailsToProcess)

\* C4: no two answered MX lookups of one domain are issued within one
\* time-to-live window.
C4_OneMxLookupPerDomain ==
    \A d \in DOMAIN dnsLog :
        \A m, n \in 1..Len(dnsLog[d].mxOk) :
            m # n => \/ dnsLog[d].mxOk[m] - dnsLog[d].mxOk[n] > stdTTL
                     \/ dnsLog[d].mxOk[n] - dnsLog[d].mxOk[m] > stdTTL

\* C5: a request is refused exactly when its list is empty or longer than the
\* maximum of its mode, and a refused request has done nothing but send the 400
\* response: no duplicate filter, no window, no classification, no stream
\* header or event, no lookup and no cache entry.
C5_BoundsFailFast ==
    /\ \A r \in Requests :
          req[r].st # "idle" =>
              /\ req[r].st = "rejected" <=>
                    \/ Len(req[r].emails) = 0
                    \/ req[r].mode = "batch" /\ Len(req[r].emails) > BATCH_MAX_EMAILS
                    \/ req[r].mode = "stream" /\ Len(req[r].emails) > STREAM_MAX_EMAILS
              /\ req[r].st = "rejected" =>
                    /\ req[r].response.status = 400
                    /\ req[r].duplicateInfo = Null
                    /\ req[r].emailsToProcess = <<>>
                    /\ req[r].winStarts = <<>>
                    /\ req[r].tasks = <<>> /\ req[r].archive = <<>>
                    /\ ~req[r].headersSent /\ req[r].events = <<>>
    /\ (\A r \in Requests : req[r].st \in {"idle", "rejected"}) =>
          mxCache = EmptyMap /\ dnsLog = EmptyMap

\* a stream request refused for one address too many, with filterDuplicates set
C5_Witness ==
    \E r \in Requests :
        /\ req[r].st = "rejected" /\ req[r].mode = "stream" /\ req[r].filterDuplicates
        /\ Len(req[r].emails) = STREAM_MAX_EMAILS + 1

\* C6 as stated: an accepted stream that has ended has the done marker as its
\* last event.
C6_AlwaysEndsWithDone ==
    \A r \in Requests :
        (req[r].mode = "stream" /\ req[r].headersSent /\ req[r].ended) =>
            /\ req[r].events # <<>>
            /\ req[r].events[Len(req[r].events)].kind = "done"

KindCount(events, kind) == Cardinality({n \in 1..Len(events) : events[n].kind = kind})

\* C6 amended: an accepted stream that has ended has either completed its
\* window loop, and then the done marker is its last event and it holds no
\* error event, or an exception has escaped the window loop, and then the
\* internal-error event is its last event and it holds no done marker.
C6_EndsWithDoneOrError ==
    \A r \in Requests :
        (req[r].mode = "stream" /\ req[r].headersSent /\ req[r].ended) =>
            /\ req[r].events # <<>>
            /\ \/ /\ req[r].st = "done"
                  /\ req[r].events[Len(req[r].events)].kind = "done"
                  /\ KindCount(req[r].events, "done") = 1
                  /\ KindCount(req[r].events, "error") = 0
               \/ /\ req[r].st = "failed"
                  /\ req[r].events[Len(req[r].events)].kind = "error"
                  /\ KindCount(req[r].events, "error") = 1
                  /\ KindCount(req[r].events, "done") = 0

\* a stream ended by the done marker although one of its classifications failed
C6_Witness ==
    \E r \in Requests :
        /\ req[r].mode = "stream" /\ req[r].st = "done"
        /\ req[r].events[Len(req[r].events)].kind = "done"
        /\ \E n \in 1..Len(req[r].events) :
              req[r].events[n].kind = "verdict" /\ req[r].events[n].data.result = "error"

\* C7: no window is started and no event is written while the client is
\* disconnected.
C7_NothingAfterDisconnect ==
    \A r \in Requests :
        /\ \A n \in 1..Len(req[r].winStarts) : req[r].winStarts[n].connected
        /\ \A n \in 1..Len(req[r].events) : req[r].events[n].open

\* a string that passes the format check and whose domain, lower-cased, is in
\* DISPOSABLE_DOMAINS
IsDisposableAddress(email) ==
    /\ email # NotAString
    /\ isEmailFormatValid(email)
    /\ toLowerCase(split(email, "@")[2]) \in DISPOSABLE_DOMAINS

\* C10: the classification of a well-formed address of a disposable domain is
\* fulfilled at once with result disposable and score 0, and has issued no MX
\* or TXT lookup and read or written no cache entry.
C10_DisposableShortCircuits ==
    \A r \in Requests :
        /\ \A k \in Live(r) :
              IsDisposableAddress(req[r].tasks[k].email) =>
                  /\ req[r].tasks[k].pc = "fulfilled"
                  /\ req[r].tasks[k].verdict.result = "disposable"
                  /\ req[r].tasks[k].verdict.score = 0
                  /\ req[r].tasks[k].mx = 0 /\ req[r].tasks[k].txt = 0
                  /\ req[r].tasks[k].cacheReads = 0 /\ req[r].tasks[k].cacheWrites = 0
        /\ \A k \in 1..Len(req[r].archive) :
              IsDisposableAddress(req[r].archive[k].email) =>
                  /\ req[r].archive[k].result = "disposable"
                  /\ req[r].archive[k].score = 0
                  /\ ~req[r].archive[k].usedDns /\ ~req[r].archive[k].usedCache

\* a disposable address classified in a later window, when the cache holds an
\* entry and a lookup of the same window is in flight
C10_Witness ==
    \E r \in Requests :
        /\ mxCache # EmptyMap
        /\ \E k \in Live(r) :
              IsDisposableAddress(req[r].tasks[k].email) /\ req[r].tasks[k].pc = "fulfilled"
        /\ InFlight(r) # {}

(***************************************************************************)
(* SpecHang: the resolver may leave a lookup unanswered for ever.  Neither *)
(* hasMXRecord nor checkSPF races its await of the lookup against a timer, *)
(* so nothing but the answer resumes the call.                             *)
(***************************************************************************)
MaxHangLen == 3

HangPool == {A_a_x, A_tempmail}

HangInputs == ListsOver(HangPool, MaxHangLen) \ {<<>>}

ArriveHang(r) ==
    /\ req[r].st = "idle"
    /\ \E mode \in {"batch", "stream"} : \E emails \in HangInputs :
           Receive(r, mode, emails, FALSE, FALSE)

\* the lookup task k awaits is one the resolver never answers
Hang(r, k) ==
    /\ req[r].tasks[k].pc \in {"mx", "txt"}
    /\ ~req[r].tasks[k].hung
    /\ req' = [req EXCEPT ![r].tasks[k].hung = TRUE]
    /\ UNCHANGED <<mxCache, now, dnsLog, dd, pm>>

NextHang ==
    \/ ArriveHang(1)
    \/ \E r \in Requests : \E k \in Live(r) : \E o \in MxOutcomes, f \in BOOLEAN : MxReply(r, k, o, f)
    \/ \E r \in Requests : \E k \in Live(r) : BackoffFires(r, k)
    \/ \E r \in Requests : \E k \in Live(r) : \E o \in TxtOutcomes, f \in BOOLEAN : TxtReply(r, k, o, f)
    \/ \E r \in Requests : \E f \in BOOLEAN : DelayFires(r, f)
    \/ \E r \in Requests : \E k \in Live(r) : Hang(r, k)

SpecHang == Init /\ [][NextHang]_vars

(***************************************************************************)
(* Properties of hasMXRecord.                                              *)
(***************************************************************************)
\* the delays of the timers awaited after the failed attempts 1..n
BackoffDelays(n) == [j \in 1..n |-> 1000 * j]

\* what one call of hasMXRecord has done so far: mx lookups issued, hit when
\* the cache answered, the timers awaited, the values written to the cache;
\* returned is "pending", "true" or "false"
CallWithinRetries(mx, hit, waits, wrote, pending, returned) ==
    /\ mx <= MX_RETRIES
    /\ hit => mx = 0 /\ waits = <<>> /\ wrote = <<>>
    /\ pending = "mx" => mx >= 1 /\ waits = BackoffDelays(mx - 1) /\ wrote = <<>>
    /\ pending = "backoff" => /\ mx >= 1 /\ mx < MX_RETRIES
                              /\ waits = BackoffDelays(mx) /\ wrote = <<>>
    /\ (pending = "no" /\ ~hit /\ mx > 0) =>
          /\ waits = BackoffDelays(mx - 1)
          /\ wrote = <<returned = "true">>
          /\ returned \in {"true", "false"}
    /\ (pending = "no" /\ mx = 0) => waits = <<>> /\ wrote = <<>>

\* the value hasMXRecord returned, read off the verdict that followed
ReturnedOf(pc, result) ==
    IF pc = "txt" \/ result = "deliverable" THEN "true"
    ELSE IF result = "undeliverable" THEN "false"
    ELSE "none"

\* C11: one call of hasMXRecord issues at most MX_RETRIES (3) MX lookups; it
\* stops at the first lookup that answers, writes that outcome to the cache once
\* and returns it; after the failed attempt k < 3 it awaits a timer of k seconds,
\* and after the third failure it writes false and returns false with no timer.
C11_BoundedRetries ==
    \A r \in Requests :
        /\ \A k \in 1..Len(req[r].tasks) :
              LET task == req[r].tasks[k]
              IN  CallWithinRetries(task.mx, task.hit, task.waits, task.wrote,
                        IF task.pc \in {"mx", "backoff"} THEN task.pc ELSE "no",
                        ReturnedOf(task.pc, task.verdict.result))
        /\ \A k \in 1..Len(req[r].archive) :
              LET a == req[r].archive[k]
              IN  CallWithinRetries(a.mx, a.hit, a.waits, a.wrote, "no",
                                    ReturnedOf("fulfilled", a.result))

\* a call that failed three times: two timers, false written, undeliverable
C11_Witness ==
    \E r \in Requests : \E k \in 1..Len(req[r].archive) :
        /\ req[r].archive[k].mx = MX_RETRIES
        /\ req[r].archive[k].waits = <<1000, 2000>>
        /\ req[r].archive[k].wrote = <<FALSE>>
        /\ req[r].archive[k].result = "undeliverable"

(***************************************************************************)
(* Properties of the batch response.                                       *)
(***************************************************************************)
ResultCategories == {"deliverable", "undeliverable", "invalid_format", "disposable", "error"}

RECURSIVE SumOf(_, _)
SumOf(f, keys) ==
    IF keys = {} THEN 0
    ELSE LET c == CHOOSE x \in keys : TRUE IN f[c] + SumOf(f, keys \ {c})

\* C12: the summary of a batch response counts, for every result category that
\* occurs among the verdicts, the verdicts of that category, and its counts add
\* up to total.
C12_SummaryAddsUp ==
    \A r \in Requests :
        (req[r].mode = "batch" /\ req[r].st = "done") =>
            LET resp == req[r].response
            IN  /\ \A c \in ResultCategories :
                      CountResult(resp.results, c) > 0 =>
                          /\ c \in DOMAIN resp.summary
                          /\ resp.summary[c] = CountResult(resp.results, c)
                /\ SumOf(resp.summary, DOMAIN resp.summary) = resp.total

(***************************************************************************)
(* Properties of the verdicts.                                             *)
(***************************************************************************)
\* the admissible result/score pairs
ScoreFits(v) ==
    \/ v.result \in {"invalid_format", "disposable"} /\ v.score = 0
    \/ v.result = "undeliverable" /\ v.score = 10
    \/ v.result = "deliverable" /\ v.score \in {95, 80}

\* the verdicts a request has got from validateEmail so far (the verdicts built
\* for rejected calls are not among them)
ReturnedVerdicts(q) ==
    {q.tasks[k].verdict : k \in {j \in 1..Len(q.tasks) : q.tasks[j].pc = "fulfilled"}}
    \cup {q.results[k] : k \in {j \in 1..Len(q.results) : q.results[j].result # "error"}}
    \cup {q.events[k].data : k \in {j \in 1..Len(q.events) :
                                      /\ q.events[j].kind = "verdict"
                                      /\ q.events[j].data.result # "error"}}

\* C13: the score of a verdict of validateEmail is fixed by its result: 0 for
\* invalid_format and disposable, 10 for undeliverable, 95 for deliverable with
\* SPF and 80 for deliverable without; no other pair occurs.
C13_ScoreFixedByResult ==
    \A r \in Requests :
        /\ \A v \in ReturnedVerdicts(req[r]) : ScoreFits(v)
        /\ \A k \in 1..Len(req[r].tasks) :
              LET task == req[r].tasks[k]
              IN  (task.pc = "fulfilled" /\ task.verdict.result = "deliverable") =>
                      /\ task.txtAnswer \in TxtOutcomes
                      /\ task.verdict.score = 95 <=> task.txtAnswer = "spf"
                      /\ task.verdict.score = 80 <=> task.txtAnswer # "spf"

\* a response with the scores 95, 80 and 0
C13_Witness ==
    \E r \in Requests :
        /\ req[r].mode = "batch" /\ req[r].st = "done"
        /\ \A sc \in {95, 80, 0} :
              \E k \in 1..Len(req[r].results) : req[r].results[k].score = sc

(***************************************************************************)
(* Properties of the cache.                                                *)
(***************************************************************************)
\* C14: a cache entry is never served once its age has reached stdTTL = 3600 s:
\* every call of hasMXRecord that the cache answered found an entry younger
\* than stdTTL.
C14_NeverServedAtTTL ==
    \A r \in Requests :
        /\ \A k \in 1..Len(req[r].tasks) :
              req[r].tasks[k].hit => req[r].tasks[k].hitAge < stdTTL
        /\ \A k \in 1..Len(req[r].archive) :
              req[r].archive[k].hit => req[r].archive[k].hitAge < stdTTL

\* C15: when an address is classified twice by a request and the second call
\* of hasMXRecord is answered by the (unexpired) cache entry of its domain, both
\* classifications give the same result and the same type.
C15_SameResultWhenCached ==
    \A r \in Requests : \A i, j \in 1..Len(req[r].archive) :
        (/\ i < j
         /\ req[r].archive[i].email = req[r].archive[j].email
         /\ req[r].archive[j].hit
         /\ req[r].archive[j].hitAge < stdTTL) =>
            /\ req[r].archive[i].result = req[r].archive[j].result
            /\ req[r].archive[i].type = req[r].archive[j].type

(***************************************************************************)
(* Progress.                                                               *)
(***************************************************************************)
\* task can still be resumed: its lookup will be answered or its timer fire
CanResume(task) ==
    \/ task.pc = "backoff"
    \/ task.pc \in {"mx", "txt"} /\ ~task.hung

\* C16: a lookup that never answers cannot stall a window for ever: a request
\* that awaits its window always has a task that can still be resumed, so the
\* window goes on to settle.
C16_NoWindowStalls ==
    \A r \in Requests :
        req[r].st = "running" => \E k \in 1..Len(req[r].tasks) : CanResume(req[r].tasks[k])

(***************************************************************************)
(* Failure of the resolver.                                                *)
(***************************************************************************)
\* no MX lookup has been answered: every lookup issued so far has failed or is
\* in flight
AllLookupsFailed == \A d \in DOMAIN dnsLog : dnsLog[d].mxOk = <<>>

\* a string that passes the format check and is not of a disposable domain
IsPlainAddress(email) ==
    /\ email # NotAString
    /\ isEmailFormatValid(email)
    /\ ~IsDisposableAddress(email)

\* C17: when every lookup fails, an accepted batch request still answers 200
\* with one verdict per address, and every well-formed address of a domain that
\* is not disposable has result undeliverable with score 10; a failing lookup
\* never makes a classification an error.
C17_ResolverFailureDegrades ==
    \A r \in Requests :
        /\ \A k \in 1..Len(req[r].archive) :
              req[r].archive[k].result = "error" => req[r].archive[k].mx = 0
        /\ \A k \in 1..Len(req[r].tasks) :
              req[r].tasks[k].pc = "rejected" => req[r].tasks[k].mx = 0
        /\ (req[r].mode = "batch" /\ req[r].st = "done" /\ AllLookupsFailed) =>
              /\ req[r].response.status = 200
              /\ Len(req[r].response.results) = Len(req[r].emailsToProcess)
              /\ \A k \in 1..Len(req[r].emailsToProcess) :
                    IsPlainAddress(req[r].emailsToProcess[k]) =>
                        /\ req[r].response.results[k].result = "undeliverable"
                        /\ req[r].response.results[k].score = 10

\* a batch answered after two classifications have each failed three times
C17_Witness ==
    \E r \in Requests :
        /\ req[r].mode = "batch" /\ req[r].st = "done" /\ AllLookupsFailed
        /\ \E i, j \in 1..Len(req[r].archive) :
              /\ i # j
              /\ req[r].archive[i].mx = MX_RETRIES /\ req[r].archive[j].mx = MX_RETRIES
              /\ req[r].response.results[i].result = "undeliverable"
              /\ req[r].response.results[j].score = 10

(***************************************************************************)
(* Order.                                                                  *)
(***************************************************************************)
\* the address a verdict of the classification of email carries: the normalised
\* address, or email itself in the verdict of a rejected classification
VerdictAddress(email) ==
    IF normalizeEmail(email) = JsFalse THEN email ELSE normalizeEmail(email)

\* C18: the i-th verdict of a batch response is the verdict of the i-th address
\* of the processed list, in whatever order the classifications of a window
\* have settled.
C18_BatchKeepsInputOrder ==
    \A r \in Requests :
        (req[r].mode = "batch" /\ req[r].st = "done") =>
            /\ Len(req[r].response.results) = Len(req[r].emailsToProcess)
            /\ \A i \in 1..Len(req[r].response.results) :
                  /\ req[r].response.results[i].email
                        = VerdictAddress(req[r].emailsToProcess[i])
                  /\ req[r].archive[i].email = req[r].emailsToProcess[i]
                  /\ req[r].response.results[i].result = req[r].archive[i].result

\* a response for two different addresses of one window, of which the second
\* settled first
C18_Witness ==
    \E r \in Requests :
        /\ req[r].mode = "batch" /\ req[r].st = "done"
        /\ Len(req[r].archive) >= 2
        /\ req[r].archive[1].email # req[r].archive[2].email
        /\ req[r].archive[2].rank > 0
        /\ req[r].archive[1].rank > req[r].archive[2].rank
        /\ req[r].response.results[1].result # req[r].response.results[2].result

\* the number of addresses of the window at offset i of request q
WindowSize(q, i) ==
    IF Len(q.emailsToProcess) - i < CONCURRENCY_LIMIT(q.mode)
    THEN Len(q.emailsToProcess) - i ELSE CONCURRENCY_LIMIT(q.mode)

\* C19: the windows are the contiguous slices of the processed list, started
\* one after the other: the classifications in flight are those of the window
\* started last, and every classification of every earlier window has settled.
C19_WindowsInSequence ==
    \A r \in Requests :
        LET q == req[r]
        IN  /\ \A n \in 1..Len(q.winStarts) :
                  q.winStarts[n].i = (n - 1) * CONCURRENCY_LIMIT(q.mode)
            /\ \A k \in 1..Len(q.archive) :
                  /\ q.archive[k].settled
                  /\ q.archive[k].email = q.emailsToProcess[k]
            /\ q.st = "running" =>
                  /\ q.i = (Len(q.winStarts) - 1) * CONCURRENCY_LIMIT(q.mode)
                  /\ Len(q.archive) = q.i
                  /\ Len(q.tasks) = WindowSize(q, q.i)
                  /\ \A k \in 1..Len(q.tasks) : q.tasks[k].email = q.emailsToProcess[q.i + k]
            /\ q.st = "paused" =>
                  /\ q.tasks = <<>>
                  /\ Len(q.archive) = q.i + CONCURRENCY_LIMIT(q.mode)
            /\ q.st = "done" => Len(q.archive) = Len(q.emailsToProcess)

\* the second window of a request is in flight after a first window whose
\* classifications settled at different times
C19_Witness ==
    \E r \in Requests :
        /\ req[r].st = "running"
        /\ Len(req[r].winStarts) = 2
        /\ \E k \in 1..Len(req[r].tasks) : ~Settled(req[r].tasks[k])
        /\ \E i, j \in 1..Len(req[r].archive) :
              req[r].archive[i].rank > req[r].archive[j].rank /\ req[r].archive[j].rank > 0

\* the verdict events of a stream, in the order written
VerdictEvents(q) == SelectSeq(q.events, LAMBDA e : e.kind = "verdict")

\* the offset of the window that holds the n-th address of request q
WindowOf(q, n) == ((n - 1) \div CONCURRENCY_LIMIT(q.mode)) * CONCURRENCY_LIMIT(q.mode)

\* C20: a stream writes the verdicts of a window only when every classification
\* of the window has settled, window after window in list order, and the done
\* marker only after the verdicts of the last window.
C20_StreamWritesByWindow ==
    \A r \in Requests :
        LET q == req[r]
            v == VerdictEvents(q)
        IN  q.mode = "stream" =>
              /\ \A n \in 1..Len(v) :
                    /\ v[n].data.email = VerdictAddress(q.emailsToProcess[n])
                    /\ v[n].win = WindowOf(q, n)
                    /\ n <= Len(q.archive)
                    /\ q.archive[n].settled
                    /\ v[n].data.result = q.archive[n].result
                    /\ \A m \in 1..Len(q.archive) :
                          WindowOf(q, m) = WindowOf(q, n) => q.archive[m].settled
              /\ q.st = "running" => Len(v) = q.i
              /\ q.st = "paused" => Len(v) = q.i + CONCURRENCY_LIMIT(q.mode)
              /\ \A n \in 1..Len(q.events) :
                    q.events[n].kind = "done" =>
                        /\ n = Len(q.events)
                        /\ Len(v) = Len(q.emailsToProcess)

\* a stream of two windows has ended with its marker; in its first window one
\* classification settled before the other
C20_Witness ==
    \E r \in Requests :
        /\ req[r].mode = "stream" /\ req[r].st = "done"
        /\ Len(req[r].winStarts) = 2
        /\ Len(VerdictEvents(req[r])) = Len(req[r].emailsToProcess)
        /\ req[r].archive[1].rank # req[r].archive[2].rank
        /\ req[r].archive[1].rank > 0 /\ req[r].archive[2].rank > 0

(***************************************************************************)
(* The events of a stream.                                                 *)
(***************************************************************************)
\* C21: an accepted stream request with filterDuplicates set has written the
\* report of the duplicate filter exactly once, as its first event, before it
\* started any window and hence before any verdict; an accepted stream request
\* without filterDuplicates has written no such event.
C21_DuplicateInfoLeads ==
    \A r \in Requests :
        (req[r].mode = "stream" /\ req[r].headersSent) =>
            IF req[r].filterDuplicates
            THEN /\ KindCount(req[r].events, "duplicate_info") = 1
                 /\ req[r].events[1].kind = "duplicate_info"
                 /\ req[r].events[1].started = 0
                 /\ req[r].events[1].data = filterDuplicateEmails(escapeAll(req[r].emails))
                 /\ req[r].emailsToProcess = req[r].events[1].data.uniqueEmails
                 /\ \A n \in 2..Len(req[r].events) : req[r].events[n].started >= 1
            ELSE KindCount(req[r].events, "duplicate_info") = 0

\* a stream that announced a duplicate and then wrote the verdicts of the two
\* addresses left
C21_Witness ==
    \E r \in Requests :
        /\ req[r].mode = "stream" /\ req[r].filterDuplicates /\ req[r].st = "done"
        /\ req[r].events[1].kind = "duplicate_info"
        /\ req[r].events[1].data.totalDuplicates = 1
        /\ req[r].events[1].data.totalUnique = 2
        /\ KindCount(req[r].events, "verdict") = Len(req[r].emailsToProcess)

\* C22: a stream awaits the DELAY_MS timer after every window that is followed
\* by another window and after no other: the n-th pause follows the writes of
\* the n-th window, the window n + 1 starts after exactly n pauses, and a stream
\* that has ended normally after w windows has paused w - 1 times.  A batch
\* never pauses.
C22_PauseBetweenWindows ==
    \A r \in Requests :
        LET q == req[r]
            w == Len(q.winStarts)
            L == CONCURRENCY_LIMIT(q.mode)
        IN  /\ q.mode # "stream" => q.pauses = <<>>
            /\ q.mode = "stream" =>
                  /\ \A n \in 1..Len(q.pauses) :
                        /\ q.pauses[n].i = (n - 1) * L
                        /\ q.pauses[n].i + L < Len(q.emailsToProcess)
                        /\ q.pauses[n].events
                              = KindCount(q.events, "duplicate_info") + n * L
                  /\ \A n \in 1..w : q.winStarts[n].pauses = n - 1
                  /\ q.st = "paused" => Len(q.pauses) = w
                  /\ q.st \in {"running", "done"} => Len(q.pauses) = w - 1
                  /\ q.st = "done" =>
                        /\ (w - 1) * L < Len(q.emailsToProcess)
                        /\ Len(q.emailsToProcess) <= w * L

\* a stream of two windows that has ended with its marker after one pause
C22_Witness ==
    \E r \in Requests :
        /\ req[r].mode = "stream" /\ req[r].st = "done"
        /\ Len(req[r].winStarts) = 2
        /\ Len(req[r].pauses) = 1
        /\ req[r].pauses[1].events = STREAM_CONCURRENCY_LIMIT

(***************************************************************************)
(* The boundary of the resolver.                                           *)
(***************************************************************************)
\* what a call of validateEmail that has used the resolver has come to: lookups
\* is the number of MX and TXT lookups it issued, wrote the values hasMXRecord
\* wrote to the cache
ResolverContained(lookups, wrote, pc, result) ==
    /\ \A n \in 1..Len(wrote) : wrote[n] \in BOOLEAN
    /\ lookups > 0 =>
          /\ pc # "rejected"
          /\ pc = "fulfilled" => result \in {"undeliverable", "deliverable"}

\* C23: hasMXRecord and checkSPF never reject: whatever the DNS collaborator
\* answers (records, an empty answer, an error at any attempt), a classification
\* that has issued a lookup is never rejected, hasMXRecord hands a boolean to the
\* cache and to validateEmail, and checkSPF settles with true or false: a failed
\* TXT lookup gives the deliverable verdict of score 80.
C23_ResolverNeverRejects ==
    \A r \in Requests :
        /\ \A k \in 1..Len(req[r].tasks) :
              LET task == req[r].tasks[k]
              IN  /\ ResolverContained(task.mx + task.txt, task.wrote, task.pc,
                                       task.verdict.result)
                  /\ task.txtAnswer # "none" =>
                        /\ task.pc = "fulfilled"
                        /\ task.verdict.result = "deliverable"
                        /\ task.verdict.score = IF task.txtAnswer = "spf" THEN 95 ELSE 80
        /\ \A k \in 1..Len(req[r].archive) :
              LET a == req[r].archive[k]
              IN  ResolverContained(a.mx + a.txt, a.wrote,
                                    IF a.result = "error" THEN "rejected" ELSE "fulfilled",
                                    a.result)

\* the TXT lookup of one classification has failed while the MX lookup of
\* another of the same window has failed twice
C23_Witness ==
    \E r \in Requests : \E k, j \in Live(r) :
        /\ req[r].tasks[k].pc = "fulfilled"
        /\ req[r].tasks[k].txtAnswer = "error"
        /\ req[r].tasks[j].pc = "backoff"
        /\ req[r].tasks[j].attempt = 2

(***************************************************************************)
(* The SPF check and the cache.                                            *)
(***************************************************************************)
\* the domain validateEmail takes from an address that normalizeEmail accepts
DomainOfAddress(email) == domainOf(normalizeEmail(email))

\* C24: the SPF check is answered from the cache like the MX check: once a
\* classification of a request has come to the verdict deliverable (its TXT
\* lookup was answered), a later classification of an address of the same
\* domain by that request, within the time-to-live, issues no TXT lookup.
C24_SpfServedFromCache ==
    \A r \in Requests : \A k \in Live(r) : \A n \in 1..Len(req[r].archive) :
        (/\ req[r].archive[n].result = "deliverable"
         /\ DomainOfAddress(req[r].archive[n].email) = req[r].tasks[k].domain) =>
            req[r].tasks[k].txt = 0

(***************************************************************************)
(* The order of the classification steps.                                  *)
(***************************************************************************)
\* a string that normalizeEmail accepts and that fails the format check
FailsFormat(email) ==
    /\ email # NotAString
    /\ normalizeEmail(email) # JsFalse
    /\ ~isEmailFormatValid(normalizeEmail(email))

\* the steps one classification has taken: the MX and TXT lookups it issued,
\* whether the cache answered hasMXRecord, the values it wrote to the cache;
\* result is "none" while it has not settled
StepsInOrder(email, mx, txt, hit, wrote, cached, result) ==
    /\ FailsFormat(email) =>
          /\ result = "invalid_format"
          /\ mx = 0 /\ txt = 0 /\ ~cached
    /\ result \in {"invalid_format", "disposable", "error"} => mx = 0 /\ txt = 0
    /\ result = "undeliverable" => txt = 0 /\ (hit \/ wrote = <<FALSE>>)
    /\ txt > 0 => txt = 1 /\ (hit \/ wrote = <<TRUE>>)
    /\ result = "deliverable" => txt = 1

\* C25: the steps of validateEmail short-circuit in order: an address that fails
\* the format check causes no lookup and no cache access; a TXT lookup is issued
\* only after hasMXRecord has returned true (from a lookup or from the cache),
\* once, and never by a classification that ends invalid_format, disposable or
\* undeliverable.
C25_StepsShortCircuit ==
    \A r \in Requests :
        /\ \A k \in 1..Len(req[r].tasks) :
              LET task == req[r].tasks[k]
              IN  StepsInOrder(task.email, task.mx, task.txt, task.hit, task.wrote,
                               task.cacheReads + task.cacheWrites > 0,
                               IF task.pc = "fulfilled" THEN task.verdict.result
                               ELSE IF task.pc = "rejected" THEN "error" ELSE "none")
        /\ \A k \in 1..Len(req[r].archive) :
              LET a == req[r].archive[k]
              IN  StepsInOrder(a.email, a.mx, a.txt, a.hit, a.wrote, a.usedCache, a.result)

\* a response with an address that failed the format check, an address without
\* MX records and a deliverable one
C25_Witness ==
    \E r \in Requests :
        /\ req[r].st = "done"
        /\ \E i, j, k \in 1..Len(req[r].archive) :
              /\ FailsFormat(req[r].archive[i].email)
              /\ req[r].archive[j].result = "undeliverable" /\ req[r].archive[j].mx >= 1
              /\ req[r].archive[k].result = "deliverable" /\ req[r].archive[k].txt = 1

(***************************************************************************)
(* Negative cache entries (SpecTimed).                                     *)
(***************************************************************************)
\* the cache holds, at time t, an entry false for the domain of email that has
\* not expired
HoldsNegative(cache, email, t) ==
    /\ IsPlainAddress(email)
    /\ Has(cache, cacheKey(DomainOfAddress(email)))
    /\ ~Expired(cache[cacheKey(DomainOfAddress(email))], t)
    /\ ~cache[cacheKey(DomainOfAddress(email))].v

\* the classification was answered by the cache and ended undeliverable
\* without a lookup
ServedNegative(hit, mx, txt, result) ==
    hit /\ mx = 0 /\ txt = 0 /\ result = "undeliverable"

\* the handler of a request that arrives runs to its first await
ArrivesIn(r) == req[r].st = "idle" /\ req'[r].st # "idle"

\* C26: a false written to the cache after the third failed MX lookup is served
\* like any entry: while it has not expired, every classification of an address
\* of that domain that a request starts on arrival is answered by the cache and
\* ends undeliverable at once, with no MX and no TXT lookup, whatever the DNS
\* collaborator would answer by then.
C26_NegativeEntryServed ==
    [][\A r \in Requests :
          ArrivesIn(r) =>
              /\ \A k \in 1..Len(req'[r].tasks) :
                    HoldsNegative(mxCache, req'[r].tasks[k].email, now) =>
                        ServedNegative(req'[r].tasks[k].hit, req'[r].tasks[k].mx,
                                       req'[r].tasks[k].txt,
                                       req'[r].tasks[k].verdict.result)
              /\ \A k \in 1..Len(req'[r].archive) :
                    HoldsNegative(mxCache, req'[r].archive[k].email, now) =>
                        ServedNegative(req'[r].archive[k].hit, req'[r].archive[k].mx,
                                       req'[r].archive[k].txt,
                                       req'[r].archive[k].result)]_vars

\* a request whose lookups failed three times, and a later request for another
\* address of the domain answered undeliverable from the cache half a
\* time-to-live later
C26_Witness ==
    \E r, p \in Requests :
        /\ r # p
        /\ req[p].st = "done" /\ Len(req[p].archive) = 1
        /\ req[p].archive[1].mx = MX_RETRIES /\ req[p].archive[1].wrote = <<FALSE>>
        /\ req[r].st = "done" /\ Len(req[r].archive) = 1
        /\ req[r].archive[1].email # req[p].archive[1].email
        /\ req[r].archive[1].hit /\ req[r].archive[1].hitAge = TickStep
        /\ req[r].archive[1].result = "undeliverable"
        /\ req[r].archive[1].mx = 0

(***************************************************************************)
(* The size bound and the duplicate filter.                                *)
(***************************************************************************)
\* C27: the size bound applies to the list as received: a request with
\* filterDuplicates set whose list is longer than the maximum of its mode is
\* refused with 400 however few unique addresses it holds, and the duplicate
\* filter has not run for it; the filter has run only for lists within the
\* bound.
C27_BoundBeforeDedup ==
    \A r \in Requests :
        /\ (/\ req[r].st # "idle"
            /\ req[r].filterDuplicates
            /\ Len(req[r].emails) > MaxEmails(req[r].mode)) =>
                /\ req[r].st = "rejected"
                /\ req[r].response.status = 400
                /\ req[r].duplicateInfo = Null
                /\ req[r].emailsToProcess = <<>>
                /\ KindCount(req[r].events, "duplicate_info") = 0
        /\ req[r].duplicateInfo # Null =>
                /\ Len(req[r].emails) <= MaxEmails(req[r].mode)
                /\ req[r].duplicateInfo.totalOriginal = Len(req[r].emails)

\* a refused batch whose list, one address too long, repeats two addresses
C27_Witness ==
    \E r \in Requests :
        /\ req[r].st = "rejected" /\ req[r].mode = "batch" /\ req[r].filterDuplicates
        /\ Len(req[r].emails) = BATCH_MAX_EMAILS + 1
        /\ UniqueCount(req[r].emails) = 2

(***************************************************************************)
(* The order of the verdicts of a stream.                                  *)
(***************************************************************************)
\* C28: the n-th verdict event of a stream is the verdict of the n-th address
\* of the processed list, in whatever order the classifications of a window
\* have settled: within a window the verdicts are written in list order.
C28_StreamKeepsInputOrder ==
    \A r \in Requests :
        req[r].mode = "stream" =>
            /\ Len(VerdictEvents(req[r])) <= Len(req[r].archive)
            /\ \A n \in 1..Len(VerdictEvents(req[r])) :
                  /\ req[r].archive[n].email = req[r].emailsToProcess[n]
                  /\ VerdictEvents(req[r])[n].data.email
                        = VerdictAddress(req[r].emailsToProcess[n])
                  /\ VerdictEvents(req[r])[n].data.result = req[r].archive[n].result
                  /\ VerdictEvents(req[r])[n].data.score = req[r].archive[n].score

\* a stream has written the verdicts of a window of two different addresses,
\* with different results, whose second classification settled first
C28_Witness ==
    \E r \in Requests :
        /\ req[r].mode = "stream"
        /\ Len(VerdictEvents(req[r])) >= 2
        /\ req[r].archive[1].email # req[r].archive[2].email
        /\ req[r].archive[2].rank > 0
        /\ req[r].archive[1].rank > req[r].archive[2].rank
        /\ VerdictEvents(req[r])[1].data.result # VerdictEvents(req[r])[2].data.result

(***************************************************************************)
(* The end of a stream.                                                    *)
(***************************************************************************)
\* C30: an accepted stream calls res.end() at most once and writes nothing
\* after it: when it has ended, its last event is either the done marker or the
\* internal-error event, it holds exactly one of the two, and that event is
\* the last one written; before it has ended it holds neither.
C30_StreamEndsOnce ==
    \A r \in Requests :
        (req[r].mode = "stream" /\ req[r].headersSent) =>
            /\ Len(req[r].ends) <= 1
            /\ req[r].ended <=> Len(req[r].ends) = 1
            /\ req[r].ended <=> req[r].st \in {"done", "failed"}
            /\ \A n \in 1..Len(req[r].events) :
                  req[r].events[n].kind \in {"done", "error"} => n = Len(req[r].events)
            /\ req[r].ended =>
                  /\ req[r].ends[1] = Len(req[r].events)
                  /\ req[r].tasks = <<>>
                  /\ KindCount(req[r].events, "done") + KindCount(req[r].events, "error") = 1
            /\ ~req[r].ended =>
                  KindCount(req[r].events, "done") + KindCount(req[r].events, "error") = 0

\* a stream ended by its catch block after the verdicts of its first window,
\* with addresses left to classify
C30_Witness ==
    \E r \in Requests :
        /\ req[r].mode = "stream" /\ req[r].st = "failed"
        /\ req[r].ends = <<Len(req[r].events)>>
        /\ req[r].events[Len(req[r].events)].kind = "error"
        /\ KindCount(req[r].events, "verdict") = STREAM_CONCURRENCY_LIMIT
        /\ Len(req[r].emailsToProcess) > STREAM_CONCURRENCY_LIMIT

(***************************************************************************)
(* SpecPMap: one call of pMap on every array of at most MaxPMapLen items   *)
(* with a concurrency of 1..MaxPMapConcurrency; the calls of fn settle in  *)
(* any order, each fulfilling with some value or rejecting.                *)
(***************************************************************************)
MaxPMapLen == 4
MaxPMapConcurrency == 3

PMapPool == {"a", "b"}
PMapValues == {"u", "v"}

InitPMap ==
    /\ req = [r \in Requests |-> IdleReq]
    /\ mxCache = EmptyMap
    /\ now = 0
    /\ dnsLog = EmptyMap
    /\ dd = [emails |-> <<>>, called |-> FALSE, out |-> Null]
    /\ \E array \in ListsOver(PMapPool, MaxPMapLen) : \E concurrency \in 1..MaxPMapConcurrency :
          pm = [IdlePMap EXCEPT !.array = array, !.concurrency = concurrency]

\* pMap is called and runs to its first await
PMapCall ==
    /\ pm.st = "idle"
    /\ pm' = pMap(pm.array, pm.concurrency)
    /\ UNCHANGED <<req, mxCache, now, dnsLog, dd>>

\* the promise of the call k of fn settles; pMap resumes when it awaits it
FnSettles(k, ok, v) ==
    /\ pm.calls[k].st = "pending"
    /\ pm' = afterSettle(settleCall(pm, k, ok, v), ok)
    /\ UNCHANGED <<req, mxCache, now, dnsLog, dd>>

NextPMap ==
    \/ PMapCall
    \/ \E k \in 1..Len(pm.calls) : \E ok \in BOOLEAN, v \in PMapValues : FnSettles(k, ok, v)

SpecPMap == InitPMap /\ [][NextPMap]_vars

\* the calls of fn that have started and not settled
PMapInFlight == {k \in 1..Len(pm.calls) : pm.calls[k].st = "pending"}

\* C29: pMap never has more than concurrency calls of fn started and unsettled;
\* it starts the calls in array order, the k-th call on the k-th item; and once
\* every call has fulfilled it has resolved to the values of the calls in array
\* order, in whatever order they fulfilled.
C29_PMapBoundedInOrder ==
    /\ Cardinality(PMapInFlight) <= pm.concurrency
    /\ \A k \in 1..Len(pm.calls) :
          pm.calls[k].index = k /\ pm.calls[k].item = pm.array[k]
    /\ pm.st = "resolved" =>
          /\ Len(pm.out) = Len(pm.array)
          /\ \A n \in 1..Len(pm.array) :
                pm.calls[n].st = "fulfilled" /\ pm.out[n] = pm.calls[n].v
    /\ (/\ pm.st # "idle"
        /\ Len(pm.calls) = Len(pm.array)
        /\ \A n \in 1..Len(pm.calls) : pm.calls[n].st = "fulfilled") => pm.st = "resolved"

\* pMap has resolved for an array longer than its concurrency, of which a later
\* call fulfilled before an earlier one, with another value
C29_Witness ==
    /\ pm.st = "resolved"
    /\ Len(pm.array) > pm.concurrency
    /\ pm.concurrency >= 2
    /\ \E i, j \in 1..Len(pm.calls) :
          /\ i < j
          /\ pm.calls[i].rank > pm.calls[j].rank
          /\ pm.out[i] # pm.out[j]
====
